---- MODULE Spec2Model ----
(***************************************************************************)
(* A single VB-LoRA adapted linear layer (peft/tuners/vblora/layer.py):    *)
(* the per-adapter registries filled by update_layer, the merge ledger,    *)
(* the base weight, and the operations update_layer, merge, unmerge,       *)
(* get_delta_weight and forward.                                           *)
(*                                                                         *)
(* Numbers.  A tensor is a (nested) sequence of scalars.  A scalar is an   *)
(* integer or NonFinite, which stands for any of inf, -inf, nan: every     *)
(* +, -, * with a non-finite operand is non-finite in IEEE arithmetic.     *)
(* Logits are stored in units of ln 2 (the entry n is the logit n * ln 2), *)
(* so exp(logit) = 2^n and the softmax weights are exact rationals; they   *)
(* are kept as integers in units of 1/SoftmaxScale.  Factors A and B are   *)
(* therefore in units of 1/SoftmaxScale, and the base weight, every delta  *)
(* weight and every output in units of 1/SoftmaxScale^2.                   *)
(***************************************************************************)
EXTENDS Integers, Sequences, FiniteSets, TLC

VARIABLES
    in_features,          \* self.in_features
    out_features,         \* self.out_features
    fan_in_fan_out,       \* self.fan_in_fan_out
    weight,               \* base_layer.weight.data
    r,                    \* self.r                   : name -> int
    topk,                 \* self.topk                : name -> int
    vblora_dropout,       \* self.vblora_dropout      : name -> module
    vblora_logits_A,      \* self.vblora_logits_A     : name -> [in_tiles][r][num_vectors]
    vblora_logits_B,      \* self.vblora_logits_B     : name -> [out_tiles][r][num_vectors]
    vblora_vector_bank,   \* self.vblora_vector_bank  : ordered dict name -> parameter
    merged_adapters,      \* self.merged_adapters     : the merge ledger
    active_adapter,       \* self._active_adapter     : list of active names
    disable_adapters,     \* self._disable_adapters
    tie_low,              \* the build's order among equal logits in Tensor.topk
    calls,                \* number of calls made on the layer since construction
    last,                 \* the call that produced this state, with its outcome
    prev                  \* the call before it

vars == <<in_features, out_features, fan_in_fan_out, weight, r, topk, vblora_dropout,
          vblora_logits_A, vblora_logits_B, vblora_vector_bank, merged_adapters,
          active_adapter, disable_adapters, tie_low, calls, last, prev>>

----------------------------------------------------------------------------
(* Bounds of the model *)

MaxCalls == 2            \* calls made on one layer after its construction
MaxR == 1                \* r is drawn from 0..MaxR
MaxTopk == 3             \* topk is drawn from 0..MaxTopk
MaxNumVectors == 2       \* num_vectors is drawn from 1..MaxNumVectors
MaxVectorLength == 3     \* vector_length is drawn from 1..MaxVectorLength
MaxNoise == 1            \* distinct draws of the logit initialisation
MaxNames == 2            \* length of an adapter_names list given to merge
MaxLedger == 3           \* merge is not called on a ledger longer than this

AdapterNames == {"a", "b"}          \* names update_layer is called with
OtherName == "z"                    \* a name never attached to this layer
AllNames == AdapterNames \cup {OtherName}

\* (in_features, out_features) of the wrapped base layer
LayerDims == {<<2, 2>>, <<2, 3>>}

----------------------------------------------------------------------------
(* Scalars and tensors *)

NonFinite == -999999

IsFinite(v) == v # NonFinite

VAdd(a, b) == IF a = NonFinite \/ b = NonFinite THEN NonFinite ELSE a + b
VSub(a, b) == IF a = NonFinite \/ b = NonFinite THEN NonFinite ELSE a - b
VMul(a, b) == IF a = NonFinite \/ b = NonFinite THEN NonFinite ELSE a * b

RECURSIVE VSum(_)
VSum(s) == IF Len(s) = 0 THEN 0 ELSE VAdd(s[1], VSum(Tail(s)))

Shape2(M) == <<Len(M), IF Len(M) = 0 THEN 0 ELSE Len(M[1])>>

Transpose2(M) ==
    [j \in 1..Shape2(M)[2] |-> [i \in 1..Len(M) |-> M[i][j]]]

MatMul(P, Q) ==
    [i \in 1..Len(P) |->
        [j \in 1..Shape2(Q)[2] |->
            VSum([k \in 1..Len(Q) |-> VMul(P[i][k], Q[k][j])])]]

VecMat(x, Q) ==
    [j \in 1..Shape2(Q)[2] |-> VSum([k \in 1..Len(Q) |-> VMul(x[k], Q[k][j])])]

MatAdd(P, Q) == [i \in 1..Len(P) |-> [j \in 1..Len(P[i]) |-> VAdd(P[i][j], Q[i][j])]]
MatSub(P, Q) == [i \in 1..Len(P) |-> [j \in 1..Len(P[i]) |-> VSub(P[i][j], Q[i][j])]]
VecAdd(x, y) == [i \in 1..Len(x) |-> VAdd(x[i], y[i])]

AllFinite(M) == \A i \in 1..Len(M) : \A j \in 1..Len(M[i]) : IsFinite(M[i][j])

Zeros3(n1, n2, n3) == [t \in 1..n1 |-> [q \in 1..n2 |-> [v \in 1..n3 |-> 0]]]

RECURSIVE Gcd(_, _)
Gcd(a, b) == IF b = 0 THEN a ELSE Gcd(b, a % b)
RECURSIVE LcmUpTo(_)
LcmUpTo(n) == IF n <= 1 THEN 1 ELSE (LcmUpTo(n - 1) * n) \div Gcd(LcmUpTo(n - 1), n)

Exp2(n) == 2 ^ n

\* logit entries are 0 or 1, so a softmax denominator over k <= num_vectors
\* selected entries is an integer in k..2k
SoftmaxScale == LcmUpTo(2 * MaxNumVectors)
WeightUnit == SoftmaxScale * SoftmaxScale

\* outcome of a call or of a sub-expression: a value, or the exception raised
Ok(v) == [err |-> "none", val |-> v]
Raise(e) == [err |-> e, val |-> <<>>]

\* Python values handed to Tensor.topk as k
PyInt(n) == [type |-> "int", val |-> n]
PyDict(d) == [type |-> "dict", val |-> d]

----------------------------------------------------------------------------
(* Dictionaries *)

EmptyDict == [n \in {} |-> 0]
DictSet(d, k, v) == [n \in (DOMAIN d) \cup {k} |-> IF n = k THEN v ELSE d[n]]

\* an ordered dictionary (nn.ParameterDict) is a sequence of entries
ODictKeys(d) == {d[i].key : i \in 1..Len(d)}
ODictGet(d, k) == (CHOOSE i \in 1..Len(d) : d[i].key = k)
ODictVal(d, k) == d[ODictGet(d, k)].val
ODictSet(d, k, v) ==
    IF k \in ODictKeys(d)
    THEN [i \in 1..Len(d) |-> IF d[i].key = k THEN [key |-> k, val |-> v] ELSE d[i]]
    ELSE Append(d, [key |-> k, val |-> v])

----------------------------------------------------------------------------
(* The low-rank factors *)

\* Tensor.topk along the last axis: the indices of the k largest entries of
\* row; among equal entries the build's order decides (tie_low: lower index
\* first)
Beats(row, j, i) ==
    \/ row[j] > row[i]
    \/ row[j] = row[i] /\ (IF tie_low THEN j < i ELSE j > i)

TopkIndices(row, k) ==
    {i \in 1..Len(row) : Cardinality({j \in 1..Len(row) : Beats(row, j, i)}) < k}

\* F.softmax over the selected entries, in units of 1/SoftmaxScale
SoftmaxWeight(row, sel, i) ==
    (Exp2(row[i]) * SoftmaxScale) \div VSum([j \in 1..Len(row) |-> IF j \in sel THEN Exp2(row[j]) ELSE 0])

\* Linear._get_low_rank_matrix: [tiles][r][bank vector length]
GetLowRankMatrix(logits, bank, k) ==
    IF k.type # "int" THEN Raise("TypeError")
    ELSE IF k.val < 0 \/ k.val > Len(logits[1][1]) THEN Raise("RuntimeError")
    ELSE IF \E t \in 1..Len(logits) : \E q \in 1..Len(logits[t]) :
               \E i \in TopkIndices(logits[t][q], k.val) : i > Len(bank)
         THEN Raise("IndexError")
    ELSE Ok([t \in 1..Len(logits) |->
               [q \in 1..Len(logits[t]) |->
                  LET row == logits[t][q]
                      sel == TopkIndices(row, k.val)
                  IN [j \in 1..Len(bank[1]) |->
                        VSum([i \in 1..Len(row) |->
                                IF i \in sel
                                THEN VMul(SoftmaxWeight(row, sel, i), bank[i][j])
                                ELSE 0])]]])

\* raw.transpose(1, 2).reshape(-1, r): [tiles * vector length][r]
FactorA(raw, rank) ==
    LET vl == Len(raw[1][1])
    IN [p \in 1..(Len(raw) * vl) |->
          [q \in 1..rank |-> raw[((p - 1) \div vl) + 1][q][((p - 1) % vl) + 1]]]

\* raw.transpose(0, 1).reshape(r, -1): [r][tiles * vector length]
FactorB(raw, rank) ==
    LET vl == Len(raw[1][1])
    IN [q \in 1..rank |->
          [p \in 1..(Len(raw) * vl) |-> raw[((p - 1) \div vl) + 1][q][((p - 1) % vl) + 1]]]

\* peft.utils.other.transpose
transpose(M, fifo) == IF fifo THEN Transpose2(M) ELSE M

----------------------------------------------------------------------------
(* The layer as a value: the fields the operations read and write *)

Layer ==
    [weight |-> weight, r |-> r, topk |-> topk, vblora_dropout |-> vblora_dropout,
     vblora_logits_A |-> vblora_logits_A, vblora_logits_B |-> vblora_logits_B,
     vblora_vector_bank |-> vblora_vector_bank, merged_adapters |-> merged_adapters]

\* VBLoRALayer.__init__: empty registries, empty ledger
NewLayer(w) ==
    [weight |-> w, r |-> EmptyDict, topk |-> EmptyDict, vblora_dropout |-> EmptyDict,
     vblora_logits_A |-> EmptyDict, vblora_logits_B |-> EmptyDict,
     vblora_vector_bank |-> <<>>, merged_adapters |-> <<>>]

\* VBLoRALayer.merged
Merged(s) == s.merged_adapters # <<>>

\* BaseTunerLayer.active_adapters
ActiveAdapters == active_adapter

\* the weight of the wrapped layer before any adaptation: [out][in] for
\* nn.Linear, [in][out] for Conv1D (fan_in_fan_out)
BaseWeight(inf, outf, fifo) ==
    IF fifo
    THEN [i \in 1..inf |-> [j \in 1..outf |-> WeightUnit * (i + 2 * j)]]
    ELSE [j \in 1..outf |-> [i \in 1..inf |-> WeightUnit * (i + 2 * j)]]

\* base_layer(x)
BaseLayer(w, x) ==
    IF fan_in_fan_out THEN VecMat(x, w) ELSE VecMat(x, Transpose2(w))

----------------------------------------------------------------------------
(* update_layer *)

\* a vector bank parameter as the framework creates it for one adapter
BankParam(owner, kind, nv, vl) ==
    [owner |-> owner, kind |-> kind,
     data |-> [v \in 1..nv |->
                 [j \in 1..vl |->
                    IF kind = "nonfinite" /\ v = 1 /\ j = 1
                    THEN NonFinite ELSE v + 2 * (j - 1)]]]

\* nn.init.normal_: one draw of the logits, entries in {0, 1}
Draw(noise, n1, n2, n3) ==
    [t \in 1..n1 |-> [q \in 1..n2 |-> [v \in 1..n3 |-> (t + q + v + noise) % 2]]]

\* nn.Dropout(p) / nn.Identity()
DropoutLayer(p) ==
    IF p > 0 THEN [kind |-> "Dropout", p |-> p] ELSE [kind |-> "Identity", p |-> 0]

\* VBLoRALayer.reset_vblora_parameters
reset_vblora_parameters(s, adapter_name, noise) ==
    IF adapter_name \in DOMAIN s.vblora_logits_A
    THEN LET la == s.vblora_logits_A[adapter_name]
             lb == s.vblora_logits_B[adapter_name]
         IN [s EXCEPT
               !.vblora_logits_A[adapter_name] =
                   Draw(noise, Len(la), Len(la[1]), Len(la[1][1])),
               !.vblora_logits_B[adapter_name] =
                   Draw(noise + 1, Len(lb), Len(lb[1]), Len(lb[1][1]))]
    ELSE s

\* lines 105-116: initialisation of the logits; the cast and set_adapter
\* leave the modelled fields alone
UpdateLayerFinish(s, a) ==
    [st |-> IF a.init_weights THEN reset_vblora_parameters(s, a.adapter_name, a.noise) ELSE s,
     err |-> "none"]

\* the argument checks with r < 0 in place of r <= 0
UpdateLayerValidateNegativeR(a) ==
    IF a.r < 0 THEN "ValueError"
    ELSE IF a.topk <= 0 THEN "ValueError"
    ELSE IF in_features % a.vector_length # 0 THEN "ValueError"
    ELSE IF out_features % a.vector_length # 0 THEN "ValueError"
    ELSE "none"

\* lines 73-81: the exception the argument checks raise, or "none"
UpdateLayerValidate(a) ==
    IF a.r <= 0 THEN "ValueError"
    ELSE IF a.topk <= 0 THEN "ValueError"
    ELSE IF in_features % a.vector_length # 0 THEN "ValueError"
    ELSE IF out_features % a.vector_length # 0 THEN "ValueError"
    ELSE "none"

\* VBLoRALayer.update_layer; a is the record of its arguments
UpdateLayer(s, a) ==
    IF UpdateLayerValidate(a) # "none" THEN [st |-> s, err |-> UpdateLayerValidate(a)]
    ELSE
      LET n == a.adapter_name
          s1 == [s EXCEPT
                   !.r = DictSet(@, n, a.r),
                   !.topk = DictSet(@, n, a.topk),
                   !.vblora_dropout = DictSet(@, n, DropoutLayer(a.vblora_dropout)),
                   !.vblora_logits_A =
                       DictSet(@, n, Zeros3(in_features \div a.vector_length, a.r, a.num_vectors)),
                   !.vblora_logits_B =
                       DictSet(@, n, Zeros3(out_features \div a.vector_length, a.r, a.num_vectors)),
                   !.vblora_vector_bank = a.vblora_vector_bank]
      IN IF n \notin ODictKeys(a.vblora_vector_bank)
         THEN IF Len(s1.vblora_vector_bank) < 1
              THEN [st |-> s1, err |-> "ValueError"]
              ELSE UpdateLayerFinish(
                     [s1 EXCEPT !.vblora_vector_bank =
                                    ODictSet(@, n, s1.vblora_vector_bank[1].val)], a)
         ELSE UpdateLayerFinish(s1, a)

----------------------------------------------------------------------------
(* get_delta_weight *)

\* lines 212-231 with k the value handed to _get_low_rank_matrix as topk
DeltaWeightWith(s, adapter, k) ==
    IF \/ adapter \notin DOMAIN s.vblora_logits_A
       \/ adapter \notin DOMAIN s.vblora_logits_B
       \/ adapter \notin ODictKeys(s.vblora_vector_bank)
    THEN Raise("KeyError")
    ELSE LET la == s.vblora_logits_A[adapter]
             lb == s.vblora_logits_B[adapter]
             bank == ODictVal(s.vblora_vector_bank, adapter).data
             rawA == GetLowRankMatrix(la, bank, k)
             rawB == GetLowRankMatrix(lb, bank, k)
         IN IF rawA.err # "none" THEN rawA
            ELSE IF rawB.err # "none" THEN rawB
            ELSE LET A == FactorA(rawA.val, Len(la[1]))
                     B == FactorB(rawB.val, Len(lb[1]))
                 IN Ok(transpose(MatMul(A, B), fan_in_fan_out))

\* the same computation with the adapter's own topk entry
GetDeltaWeightOwnTopk(s, adapter) ==
    IF adapter \notin DOMAIN s.topk THEN Raise("KeyError")
    ELSE DeltaWeightWith(s, adapter, PyInt(s.topk[adapter]))

\* Linear.get_delta_weight: line 228 hands self.topk, the whole registry
GetDeltaWeight(s, adapter) == DeltaWeightWith(s, adapter, PyDict(s.topk))

----------------------------------------------------------------------------
(* merge and unmerge *)

\* in-place w += d or w -= d: d is broadcast to the shape of w
Broadcastable(d, w) ==
    /\ Shape2(d)[1] \in {1, Shape2(w)[1]}
    /\ Shape2(d)[2] \in {1, Shape2(w)[2]}

BroadcastTo(d, w) ==
    [i \in 1..Len(w) |->
       [j \in 1..Len(w[i]) |->
          d[IF Len(d) = 1 THEN 1 ELSE i][IF Len(d[1]) = 1 THEN 1 ELSE j]]]

AddInPlace(w, d) ==
    IF Broadcastable(d, w) THEN Ok(MatAdd(w, BroadcastTo(d, w))) ELSE Raise("RuntimeError")

SubInPlace(w, d) ==
    IF Broadcastable(d, w) THEN Ok(MatSub(w, BroadcastTo(d, w))) ELSE Raise("RuntimeError")

\* peft.tuners.tuners_utils.check_adapters_to_merge: the names given, or
\* the active names when none are given
check_adapters_to_merge(s, adapter_names) ==
    IF adapter_names.given THEN adapter_names.list ELSE ActiveAdapters

\* lines 170-186: the merge of one adapter that has logits on the layer
MergeRegistered(s, safe_merge, active) ==
    LET delta == GetDeltaWeight(s, active) IN
    IF delta.err # "none" THEN [st |-> s, err |-> delta.err]
    ELSE
      LET orig_weights == AddInPlace(s.weight, delta.val) IN
      IF orig_weights.err # "none" THEN [st |-> s, err |-> orig_weights.err]
      ELSE IF safe_merge
        THEN IF ~AllFinite(orig_weights.val)
             THEN [st |-> s, err |-> "ValueError"]
             ELSE [st |-> [s EXCEPT !.weight = orig_weights.val,
                                    !.merged_adapters = Append(@, active)],
                   err |-> "none"]
        ELSE [st |-> [s EXCEPT !.weight = orig_weights.val,
                               !.merged_adapters = Append(@, active)],
              err |-> "none"]

\* the same without the test of line 169
MergeAdapterUnchecked(s, safe_merge, active) == MergeRegistered(s, safe_merge, active)

\* lines 169-186: one pass of the loop body
MergeAdapter(s, safe_merge, active) ==
    IF active \in DOMAIN s.vblora_logits_A
    THEN MergeRegistered(s, safe_merge, active)
    ELSE [st |-> s, err |-> "none"]

\* the loop of lines 168-186 from position i of names
RECURSIVE MergeLoop(_, _, _, _)
MergeLoop(s, safe_merge, names, i) ==
    IF i > Len(names) THEN [st |-> s, err |-> "none"]
    ELSE LET one == MergeAdapter(s, safe_merge, names[i])
         IN IF one.err # "none" THEN one
            ELSE MergeLoop(one.st, safe_merge, names, i + 1)

\* Linear.merge
Merge(s, safe_merge, adapter_names) ==
    LET names == check_adapters_to_merge(s, adapter_names)
    IN IF Len(names) = 0 THEN [st |-> s, err |-> "none"]
       ELSE MergeLoop(s, safe_merge, names, 1)

\* the loop of lines 193-196
RECURSIVE UnmergeLoop(_)
UnmergeLoop(s) ==
    IF Len(s.merged_adapters) > 0
    THEN LET active == s.merged_adapters[Len(s.merged_adapters)]
             popped == [s EXCEPT !.merged_adapters = SubSeq(@, 1, Len(@) - 1)]
         IN IF active \in DOMAIN s.vblora_logits_A
            THEN LET delta == GetDeltaWeight(popped, active) IN
                 IF delta.err # "none" THEN [st |-> popped, err |-> delta.err]
                 ELSE LET w == SubInPlace(popped.weight, delta.val) IN
                      IF w.err # "none" THEN [st |-> popped, err |-> w.err]
                      ELSE UnmergeLoop([popped EXCEPT !.weight = w.val])
            ELSE UnmergeLoop(popped)
    ELSE [st |-> s, err |-> "none"]

\* the same without the test of line 189
UnmergeUnguarded(s) ==
    [st |-> UnmergeLoop(s).st, err |-> UnmergeLoop(s).err, warned |-> FALSE]

\* Linear.unmerge; warned tells whether "Already unmerged" was emitted
Unmerge(s) ==
    IF ~Merged(s) THEN [st |-> s, err |-> "none", warned |-> TRUE]
    ELSE [st |-> UnmergeLoop(s).st, err |-> UnmergeLoop(s).err, warned |-> FALSE]

----------------------------------------------------------------------------
(* forward *)

\* dropout(x): the identity, or x with the masked entries zeroed and the
\* rest scaled by 1/(1-p); p is in percent
ApplyDropout(module, x, mask) ==
    IF module.kind = "Identity" THEN x
    ELSE [i \in 1..Len(x) |-> (x[i] * mask[i] * 100) \div (100 - module.p)]

\* result + y for vectors, with broadcasting of a length-1 operand
AddBroadcast(result, y) ==
    IF Len(y) = Len(result) THEN Ok(VecAdd(result, y))
    ELSE IF Len(y) = 1 THEN Ok([i \in 1..Len(result) |-> VAdd(result[i], y[1])])
    ELSE IF Len(result) = 1 THEN Ok([i \in 1..Len(y) |-> VAdd(result[1], y[i])])
    ELSE Raise("RuntimeError")

\* lines 248-259 for one active adapter: result + dropout(x) @ A @ B
ForwardAdapter(s, active, x, mask, result) ==
    IF \/ active \notin DOMAIN s.vblora_logits_B
       \/ active \notin ODictKeys(s.vblora_vector_bank)
       \/ active \notin DOMAIN s.topk
       \/ active \notin DOMAIN s.vblora_dropout
    THEN Raise("KeyError")
    ELSE LET la == s.vblora_logits_A[active]
             lb == s.vblora_logits_B[active]
             bank == ODictVal(s.vblora_vector_bank, active).data
             k == PyInt(s.topk[active])
             rawA == GetLowRankMatrix(la, bank, k)
             rawB == GetLowRankMatrix(lb, bank, k)
         IN IF rawA.err # "none" THEN rawA
            ELSE IF rawB.err # "none" THEN rawB
            ELSE LET A == FactorA(rawA.val, Len(la[1]))
                     B == FactorB(rawB.val, Len(lb[1]))
                     dx == ApplyDropout(s.vblora_dropout[active], x, mask[active])
                 IN IF Len(dx) # Len(A) THEN Raise("RuntimeError")
                    ELSE AddBroadcast(result, VecMat(VecMat(dx, A), B))

\* the loop of lines 244-259 from position i of the active adapters
RECURSIVE ForwardLoop(_, _, _, _, _)
ForwardLoop(s, x, mask, i, result) ==
    IF i > Len(ActiveAdapters) THEN Ok(result)
    ELSE IF ActiveAdapters[i] \notin DOMAIN s.vblora_logits_A
         THEN ForwardLoop(s, x, mask, i + 1, result)
    ELSE LET next == ForwardAdapter(s, ActiveAdapters[i], x, mask, result)
         IN IF next.err # "none" THEN next
            ELSE ForwardLoop(s, x, mask, i + 1, next.val)

\* forward adding the first active adapter's product A @ B to the base weight
\* in place, where the code adds the correction to the result only
ForwardWritingWeight(s, x, mask) ==
    LET n == ActiveAdapters[1]
        res == ForwardLoop(s, x, mask, 1, BaseLayer(s.weight, x))
        delta == DeltaWeightWith(s, n, PyInt(s.topk[n]))
    IN IF /\ ~disable_adapters /\ ~Merged(s)
          /\ n \in DOMAIN s.vblora_logits_A /\ n \in DOMAIN s.topk
          /\ res.err = "none" /\ delta.err = "none"
          /\ AddInPlace(s.weight, delta.val).err = "none"
       THEN [st |-> [s EXCEPT !.weight = AddInPlace(s.weight, delta.val).val],
             err |-> "none", out |-> res.val]
       ELSE [st |-> s, err |-> res.err, out |-> res.val]

\* Linear.forward: the layer it leaves, the exception raised, the output
Forward(s, x, mask) ==
    IF disable_adapters
    THEN IF Merged(s)
         THEN LET u == Unmerge(s) IN
              IF u.err # "none" THEN [st |-> u.st, err |-> u.err, out |-> <<>>]
              ELSE [st |-> u.st, err |-> "none", out |-> BaseLayer(u.st.weight, x)]
         ELSE [st |-> s, err |-> "none", out |-> BaseLayer(s.weight, x)]
    ELSE IF Merged(s)
         THEN [st |-> s, err |-> "none", out |-> BaseLayer(s.weight, x)]
    ELSE LET res == ForwardLoop(s, x, mask, 1, BaseLayer(s.weight, x))
         IN [st |-> s, err |-> res.err, out |-> res.val]

----------------------------------------------------------------------------
(* Inputs of the calls *)

\* update_layer arguments: each argument is varied over its whole range
\* around a valid call
BankChoices == {"same", "seeded", "seeded_nonfinite", "empty"}

PlainArgs(n) ==
    [adapter_name |-> n, r |-> 1, topk |-> 1, num_vectors |-> MaxNumVectors,
     vector_length |-> 1, vblora_dropout |-> 0, init_weights |-> FALSE, noise |-> 1,
     bank |-> "seeded"]

UpdateArgs ==
    UNION {
        {[PlainArgs(n) EXCEPT !.r = v] : v \in 0..MaxR}
        \cup {[PlainArgs(n) EXCEPT !.topk = v] : v \in 0..MaxTopk}
        \cup {[PlainArgs(n) EXCEPT !.num_vectors = v] : v \in 1..MaxNumVectors}
        \cup {[PlainArgs(n) EXCEPT !.vector_length = v] : v \in 1..MaxVectorLength}
        \cup {[PlainArgs(n) EXCEPT !.vblora_dropout = 50]}
        \cup {[PlainArgs(n) EXCEPT !.init_weights = TRUE, !.noise = v, !.topk = 2] : v \in 1..MaxNoise}
        \cup {[PlainArgs(n) EXCEPT !.bank = b] : b \in BankChoices}
        : n \in AdapterNames}

\* the arguments of the constructor's update_layer call
CtorArgs ==
    {PlainArgs("a"),
     [PlainArgs("a") EXCEPT !.init_weights = TRUE, !.topk = 2],
     [PlainArgs("a") EXCEPT !.bank = "seeded_nonfinite"]}

\* the dictionary the caller hands over as vblora_vector_bank: the one the
\* layer already shares with it, that one with the adapter's own parameter
\* put in by the caller, or another, empty one
BankFor(d, a) ==
    IF a.bank = "same" THEN d
    ELSE IF a.bank = "empty" THEN <<>>
    ELSE ODictSet(d, a.adapter_name,
                  BankParam(a.adapter_name,
                            IF a.bank = "seeded" THEN "finite" ELSE "nonfinite",
                            a.num_vectors, a.vector_length))

BankArg(a) == BankFor(vblora_vector_bank, a)

WithBank(a, d) ==
    [adapter_name |-> a.adapter_name, r |-> a.r, topk |-> a.topk,
     num_vectors |-> a.num_vectors, vector_length |-> a.vector_length,
     vblora_dropout |-> a.vblora_dropout, init_weights |-> a.init_weights,
     noise |-> a.noise, vblora_vector_bank |-> d]

RECURSIVE SeqsUpTo(_, _)
SeqsUpTo(S, n) ==
    IF n = 0 THEN {<<>>}
    ELSE SeqsUpTo(S, n - 1) \cup {Append(q, e) : q \in SeqsUpTo(S, n - 1), e \in S}

\* adapter_names of merge: None, or a list
MergeNames ==
    {[given |-> FALSE, list |-> <<>>]}
    \cup {[given |-> TRUE, list |-> q] : q \in SeqsUpTo(AllNames, MaxNames)}

\* the lists set_adapter is called with
ActiveChoices ==
    {q \in SeqsUpTo(AllNames, 2) : Len(q) >= 1 /\ \A i, j \in 1..Len(q) : i # j => q[i] # q[j]}

\* inputs of forward
Inputs == {[i \in 1..in_features |-> 1], [i \in 1..in_features |-> i]}

\* dropout masks: keep everything, or drop the first entry
Masks == {[i \in 1..in_features |-> 1], [i \in 1..in_features |-> IF i = 1 THEN 0 ELSE 1]}

\* the names whose dropout module draws a mask in this forward call
DropoutNames ==
    IF disable_adapters \/ Merged(Layer) THEN {}
    ELSE {n \in DOMAIN vblora_dropout :
            /\ \E i \in 1..Len(ActiveAdapters) : ActiveAdapters[i] = n
            /\ vblora_dropout[n].kind = "Dropout"}

MaskChoices ==
    {m \in [AllNames -> Masks] :
        \A n \in AllNames \ DropoutNames : m[n] = [i \in 1..in_features |-> 1]}

----------------------------------------------------------------------------
(* The calls *)

NoArgs ==
    [adapter_name |-> "", r |-> 0, topk |-> 0, num_vectors |-> 0, vector_length |-> 0,
     vblora_dropout |-> 0, init_weights |-> FALSE, noise |-> 0, bank |-> "", bank_len |-> 0]

\* the record of a call: what was called, with what, from which layer
\* state, and how it ended
Call(op) ==
    [op |-> op, args |-> NoArgs, adapter |-> "", safe_merge |-> FALSE,
     adapter_names |-> [given |-> FALSE, list |-> <<>>], x |-> <<>>, mask |-> <<>>,
     before |-> Layer, active |-> active_adapter, disabled |-> disable_adapters,
     err |-> "none", warned |-> FALSE, out |-> <<>>]

SetLayer(s) ==
    /\ weight' = s.weight
    /\ r' = s.r
    /\ topk' = s.topk
    /\ vblora_dropout' = s.vblora_dropout
    /\ vblora_logits_A' = s.vblora_logits_A
    /\ vblora_logits_B' = s.vblora_logits_B
    /\ vblora_vector_bank' = s.vblora_vector_bank
    /\ merged_adapters' = s.merged_adapters

Step(rec) ==
    /\ calls' = calls + 1
    /\ prev' = last
    /\ last' = rec
    /\ UNCHANGED <<in_features, out_features, fan_in_fan_out, tie_low>>

\* Linear.__init__: a layer exists only when the constructor's update_layer
\* call returned
Init ==
    \E dims \in LayerDims, fifo \in BOOLEAN, tie \in BOOLEAN, a \in CtorArgs :
        /\ in_features = dims[1]
        /\ out_features = dims[2]
        /\ fan_in_fan_out = fifo
        /\ tie_low = tie
        /\ active_adapter = <<a.adapter_name>>
        /\ disable_adapters = FALSE
        /\ calls = 0
        /\ LET res == UpdateLayer(NewLayer(BaseWeight(dims[1], dims[2], fifo)),
                                  WithBank(a, BankFor(<<>>, a)))
           IN /\ res.err = "none"
              /\ weight = res.st.weight
              /\ r = res.st.r
              /\ topk = res.st.topk
              /\ vblora_dropout = res.st.vblora_dropout
              /\ vblora_logits_A = res.st.vblora_logits_A
              /\ vblora_logits_B = res.st.vblora_logits_B
              /\ vblora_vector_bank = res.st.vblora_vector_bank
              /\ merged_adapters = res.st.merged_adapters
        /\ last = Call("init")
        /\ prev = last

update_layer ==
    /\ calls < MaxCalls
    /\ \E a \in UpdateArgs :
         LET d == BankArg(a)
             res == UpdateLayer(Layer, WithBank(a, d))
         IN /\ SetLayer(res.st)
            /\ Step([Call("update_layer") EXCEPT
                       !.args = [adapter_name |-> a.adapter_name, r |-> a.r, topk |-> a.topk,
                                 num_vectors |-> a.num_vectors,
                                 vector_length |-> a.vector_length,
                                 vblora_dropout |-> a.vblora_dropout,
                                 init_weights |-> a.init_weights, noise |-> a.noise,
                                 bank |-> a.bank, bank_len |-> Len(d)],
                       !.adapter = a.adapter_name,
                       !.err = res.err])
    /\ UNCHANGED <<active_adapter, disable_adapters>>

merge ==
    /\ calls < MaxCalls
    /\ Len(merged_adapters) <= MaxLedger
    /\ \E safe_merge \in BOOLEAN, adapter_names \in MergeNames :
         LET res == Merge(Layer, safe_merge, adapter_names)
         IN /\ SetLayer(res.st)
            /\ Step([Call("merge") EXCEPT
                       !.safe_merge = safe_merge,
                       !.adapter_names = adapter_names,
                       !.err = res.err])
    /\ UNCHANGED <<active_adapter, disable_adapters>>

unmerge ==
    /\ calls < MaxCalls
    /\ LET res == Unmerge(Layer)
       IN /\ SetLayer(res.st)
          /\ Step([Call("unmerge") EXCEPT !.err = res.err, !.warned = res.warned])
    /\ UNCHANGED <<active_adapter, disable_adapters>>

get_delta_weight ==
    /\ calls < MaxCalls
    /\ \E adapter \in AllNames :
         LET res == GetDeltaWeight(Layer, adapter)
         IN Step([Call("get_delta_weight") EXCEPT
                    !.adapter = adapter, !.err = res.err, !.out = res.val])
    /\ UNCHANGED <<weight, r, topk, vblora_dropout, vblora_logits_A, vblora_logits_B,
                   vblora_vector_bank, merged_adapters, active_adapter, disable_adapters>>

forward ==
    /\ calls < MaxCalls
    /\ \E x \in Inputs, mask \in MaskChoices :
         LET res == Forward(Layer, x, mask)
         IN /\ SetLayer(res.st)
            /\ Step([Call("forward") EXCEPT
                       !.x = x, !.mask = mask, !.err = res.err, !.out = res.out])
    /\ UNCHANGED <<active_adapter, disable_adapters>>

\* BaseTunerLayer.set_adapter
set_adapter ==
    /\ calls < MaxCalls
    /\ \E names \in ActiveChoices :
         /\ active_adapter' = names
         /\ Step([Call("set_adapter") EXCEPT !.adapter_names = [given |-> TRUE, list |-> names]])
    /\ UNCHANGED <<weight, r, topk, vblora_dropout, vblora_logits_A, vblora_logits_B,
                   vblora_vector_bank, merged_adapters, disable_adapters>>

\* BaseTunerLayer.enable_adapters
enable_adapters ==
    /\ calls < MaxCalls
    /\ \E enabled \in BOOLEAN :
         /\ disable_adapters' = ~enabled
         /\ Step([Call("enable_adapters") EXCEPT !.disabled = ~enabled])
    /\ UNCHANGED <<weight, r, topk, vblora_dropout, vblora_logits_A, vblora_logits_B,
                   vblora_vector_bank, merged_adapters, active_adapter>>

Next ==
    \/ update_layer
    \/ merge
    \/ unmerge
    \/ get_delta_weight
    \/ forward
    \/ set_adapter
    \/ enable_adapters

Spec == Init /\ [][Next]_vars

----------------------------------------------------------------------------
(* Vocabulary of the properties *)

Elems(q) == {q[i] : i \in 1..Len(q)}

\* the names a recorded merge call resolved to
ResolvedNames(c) == IF c.adapter_names.given THEN c.adapter_names.list ELSE c.active

\* the adapter has registered state on the layer s
Registered(s, n) == n \in DOMAIN s.vblora_logits_A

\* the base weight before any adaptation
OriginalWeight == BaseWeight(in_features, out_features, fan_in_fan_out)

\* the delta weight of n as the forward pass builds its factors: from the
\* adapter's own topk entry
OwnTopkDelta(s, n) == DeltaWeightWith(s, n, PyInt(s.topk[n]))

\* the candidate weight of a merge of n into the layer s is not finite
NonFiniteCandidate(s, n) ==
    /\ Registered(s, n)
    /\ OwnTopkDelta(s, n).err = "none"
    /\ AddInPlace(s.weight, OwnTopkDelta(s, n).val).err = "none"
    /\ ~AllFinite(AddInPlace(s.weight, OwnTopkDelta(s, n).val).val)

NoMask == [n \in AllNames |-> [i \in 1..in_features |-> 1]]

----------------------------------------------------------------------------
(* Properties *)

C7_UpdateLayerValidation ==
    last.op = "update_layer" =>
        LET a == last.args
            invalid == \/ a.r <= 0
                       \/ a.topk <= 0
                       \/ in_features % a.vector_length # 0
                       \/ out_features % a.vector_length # 0
        IN /\ invalid => last.err = "ValueError"
           /\ (~invalid /\ a.bank_len >= 1) => last.err = "none"

\* update_layer was rejected only because out_features is not divisible
C7_Witness ==
    /\ last.op = "update_layer"
    /\ last.args.r > 0 /\ last.args.topk > 0
    /\ in_features % last.args.vector_length = 0
    /\ out_features % last.args.vector_length # 0
    /\ last.err = "ValueError"

\* C8: update_layer with topk > num_vectors is rejected with ValueError,
\* and no registered adapter has a topk above the num_vectors of its logits.
C8_TopkAboveNumVectorsRejected ==
    /\ (last.op = "update_layer" /\ last.args.topk > last.args.num_vectors)
          => last.err = "ValueError"
    /\ \A n \in DOMAIN vblora_logits_A :
          topk[n] <= Len(vblora_logits_A[n][1][1])

\* C9: get_delta_weight of a registered adapter returns a matrix of the
\* shape of the base weight: [out_features][in_features], or
\* [in_features][out_features] under fan_in_fan_out.
C9_DeltaWeightHasWeightShape ==
    (/\ last.op = "get_delta_weight"
     /\ Registered(Layer, last.adapter)
     /\ last.adapter \in ODictKeys(vblora_vector_bank)
     /\ topk[last.adapter] <= Len(vblora_logits_A[last.adapter][1][1]))
        => (/\ last.err = "none"
            /\ Shape2(last.out) = (IF fan_in_fan_out
                                   THEN <<in_features, out_features>>
                                   ELSE <<out_features, in_features>>)
            /\ Shape2(last.out) = Shape2(weight))

\* C10: merge skips a requested name without registered state: it does not
\* raise for it, does not push it, and a call none of whose names is
\* registered (or whose resolved list is empty) changes neither the base
\* weight nor the ledger.
C10_MergeSkipsUnregistered ==
    last.op = "merge" =>
        LET names == ResolvedNames(last)
            was == last.before.merged_adapters
        IN /\ Len(merged_adapters) >= Len(was)
           /\ SubSeq(merged_adapters, 1, Len(was)) = was
           /\ \A i \in (Len(was) + 1)..Len(merged_adapters) :
                 Registered(last.before, merged_adapters[i])
           /\ (\A n \in Elems(names) : ~Registered(last.before, n))
                 => (/\ last.err = "none"
                     /\ weight = last.before.weight
                     /\ merged_adapters = was)

\* a merge naming only an adapter without registered state has returned
C10_Witness ==
    /\ last.op = "merge"
    /\ ResolvedNames(last) # <<>>
    /\ \A n \in Elems(ResolvedNames(last)) : ~Registered(last.before, n)
    /\ last.err = "none"
    /\ weight = last.before.weight
    /\ merged_adapters = last.before.merged_adapters

\* C11: unmerge on a layer whose ledger is empty raises nothing, emits the
\* "Already unmerged" warning and leaves the base weight, the ledger and
\* every adapter registry as they were.
C11_UnmergeOnEmptyLedgerIsNoOp ==
    (last.op = "unmerge" /\ last.before.merged_adapters = <<>>)
        => (/\ last.err = "none"
            /\ last.warned
            /\ Layer = last.before)

\* unmerge has run on an empty ledger right after a merge call that named a
\* registered adapter
C11_Witness ==
    /\ last.op = "unmerge"
    /\ last.before.merged_adapters = <<>>
    /\ prev.op = "merge"
    /\ \E n \in Elems(ResolvedNames(prev)) : Registered(prev.before, n)
    /\ last.warned
    /\ Layer = last.before

\* every name with logits on the layer s has a bank entry, and all bank
\* entries are one parameter
OneSharedBank(s) ==
    /\ \A n \in DOMAIN s.vblora_logits_A : n \in ODictKeys(s.vblora_vector_bank)
    /\ \A i, j \in 1..Len(s.vblora_vector_bank) :
          s.vblora_vector_bank[i].val = s.vblora_vector_bank[j].val

\* C12: a successful update_layer for a new adapter name, on a layer whose
\* registered names all have a bank entry and share one bank parameter,
\* leaves every registered name with a bank entry, all entries being that
\* same parameter, of unchanged shape.
C12_AttachSharesOneBank ==
    (/\ last.op = "update_layer"
     /\ last.err = "none"
     /\ ~Registered(last.before, last.adapter)
     /\ OneSharedBank(last.before))
        => (/\ OneSharedBank(Layer)
            /\ \A i \in 1..Len(vblora_vector_bank) :
                  vblora_vector_bank[i].val = last.before.vblora_vector_bank[1].val)

\* C13: for an adapter registered on the layer whose factors the forward
\* pass can build, get_delta_weight returns without error, and what it
\* returns is the product of the factors A and B of the forward pass (the
\* adapter's logits, its bank entry and its own topk), transposed under
\* fan_in_fan_out.
C13_DeltaWeightUsesForwardFactors ==
    (/\ last.op = "get_delta_weight"
     /\ Registered(Layer, last.adapter)
     /\ last.adapter \in DOMAIN topk
     /\ OwnTopkDelta(Layer, last.adapter).err = "none")
        => (/\ last.err = "none"
            /\ last.out = OwnTopkDelta(Layer, last.adapter).val)

\* the weight w of the layer s less the delta weight of names[i], ...,
\* names[1], each taken once, last pushed first
RECURSIVE SubtractedInReverse(_, _, _, _)
SubtractedInReverse(s, w, names, i) ==
    IF i = 0 THEN w
    ELSE SubtractedInReverse(s, MatSub(w, BroadcastTo(OwnTopkDelta(s, names[i]).val, w)),
                             names, i - 1)

Correction(s, n, x, mask) ==
    VecMat(ApplyDropout(s.vblora_dropout[n], x, mask[n]),
           transpose(OwnTopkDelta(s, n).val, fan_in_fan_out))

\* the base output plus the corrections of the first i active names, those
\* without logits on the layer s left out
RECURSIVE BasePlusCorrections(_, _, _, _, _)
BasePlusCorrections(s, active, x, mask, i) ==
    IF i = 0 THEN BaseLayer(s.weight, x)
    ELSE IF ~Registered(s, active[i])
         THEN BasePlusCorrections(s, active, x, mask, i - 1)
    ELSE VecAdd(BasePlusCorrections(s, active, x, mask, i - 1),
                Correction(s, active[i], x, mask))

\* C15: a forward call on an Unmerged layer with adapters enabled returns,
\* without error, the base output plus dropout(x) @ A @ B summed over the
\* active names that have registered state; the other active names add
\* nothing.
C15_ForwardAddsRegisteredActive ==
    (last.op = "forward" /\ ~last.disabled /\ ~Merged(last.before))
        => (/\ last.err = "none"
            /\ last.out = BasePlusCorrections(last.before, last.active, last.x,
                                              last.mask, Len(last.active)))

\* C16: an update_layer call that raises leaves the layer as it was: r,
\* topk, dropout, both logits registries and the bank mapping are those of
\* before the call.
C16_FailedUpdateLayerChangesNothing ==
    (last.op = "update_layer" /\ last.err # "none")
        => (/\ r = last.before.r
            /\ topk = last.before.topk
            /\ vblora_dropout = last.before.vblora_dropout
            /\ vblora_logits_A = last.before.vblora_logits_A
            /\ vblora_logits_B = last.before.vblora_logits_B
            /\ vblora_vector_bank = last.before.vblora_vector_bank)

\* C17: a forward call made with adapters enabled, or on an Unmerged
\* layer, leaves the base weight, the ledger and every adapter registry as
\* they were, whether it returns or raises.
C17_ForwardEnabledChangesNothing ==
    (last.op = "forward" /\ (~last.disabled \/ ~Merged(last.before)))
        => Layer = last.before

\* forward has returned, with adapters enabled, an output to which a
\* registered active adapter has contributed
C17_Witness ==
    /\ last.op = "forward"
    /\ ~last.disabled
    /\ last.err = "none"
    /\ \E n \in Elems(last.active) : Registered(last.before, n)
    /\ last.out # BaseLayer(last.before.weight, last.x)
    /\ Layer = last.before

====
